---- MODULE Spec2Model ----
(***************************************************************************)
(* Semantic checker of the xenon front end (src/frontend/checker.rs).      *)
(*                                                                         *)
(* The checker walks a translation unit depth first.  The tree is the      *)
(* input of check: it is read one item at a time, in source order, each    *)
(* item drawn from a small vocabulary.  The items read are kept on a tape, *)
(* so that check can be called a second time on the same tree.             *)
(***************************************************************************)
EXTENDS Naturals, Sequences, FiniteSets, TLC

VARIABLES table, stack, result, fn, cur, ret, tape, pos, calls, first, fresh

vars == <<table, stack, result, fn, cur, ret, tape, pos, calls, first, fresh>>

(***************************************************************************)
(* Bounds of the model.                                                    *)
(***************************************************************************)
MaxTape == 4        \* items of the tree (an End and the end of the unit count as items)

(***************************************************************************)
(* expr::types::Type and SymbolTableItem.                                  *)
(***************************************************************************)
Int == [ty |-> "Int", dims |-> <<>>]
Void == [ty |-> "Void", dims |-> <<>>]
Pointer(dims) == [ty |-> "Pointer", dims |-> dims]

ConstVariable(v) == [kind |-> "ConstVariable", val |-> v, ret |-> Void, params |-> <<>>, dims |-> <<>>]
Variable == [kind |-> "Variable", val |-> 0, ret |-> Void, params |-> <<>>, dims |-> <<>>]
Function(rt, ps) == [kind |-> "Function", val |-> 0, ret |-> rt, params |-> ps, dims |-> <<>>]
PointerItem(dims) == [kind |-> "Pointer", val |-> 0, ret |-> Void, params |-> <<>>, dims |-> dims]

(***************************************************************************)
(* Outcomes.  The code returns Result<(), String>; the message is kept as  *)
(* the rule it reports.  "Panic" is an abort without a Result (todo!()).   *)
(***************************************************************************)
Ok == [ok |-> TRUE, err |-> "Ok"]
Err(e) == [ok |-> FALSE, err |-> e]

(***************************************************************************)
(* Scope for SymbolTable: a table is a sequence of frames, the last one    *)
(* being the top; a frame is a function from the names it binds.           *)
(***************************************************************************)
EmptyFrame == [n \in {} |-> Variable]

new == <<EmptyFrame>>

RECURSIVE searchFrom(_, _, _)
searchFrom(t, i, identifier) ==
    IF i = 0 THEN [found |-> FALSE, info |-> Variable]
    ELSE IF identifier \in DOMAIN t[i] THEN [found |-> TRUE, info |-> t[i][identifier]]
    ELSE searchFrom(t, i - 1, identifier)

\* search scanning the frames without rev(): the outermost binding wins
search_outermost(t, identifier) ==
    LET binding == {i \in 1..Len(t) : identifier \in DOMAIN t[i]} IN
    IF binding = {} THEN [found |-> FALSE, info |-> Variable]
    ELSE [found |-> TRUE, info |-> t[CHOOSE i \in binding : \A j \in binding : i <= j][identifier]]

search(t, identifier) == searchFrom(t, Len(t), identifier)

\* insert_definition without the duplicate check: the old symbol is dropped silently
insert_definition_silent(t, identifier, symbol) ==
    [res |-> Ok,
     table |-> [t EXCEPT ![Len(t)] = (identifier :> symbol) @@ t[Len(t)]]]

\* insert_definition looking for the name in every frame instead of the top one
insert_definition_strict(t, identifier, symbol) ==
    [res |-> IF search(t, identifier).found THEN Err("DuplicateDefinition") ELSE Ok,
     table |-> [t EXCEPT ![Len(t)] = (identifier :> symbol) @@ t[Len(t)]]]

\* insert_definition taking first_mut() for last_mut(): the name goes to the global frame
insert_definition_global(t, identifier, symbol) ==
    [res |-> IF identifier \in DOMAIN t[1] THEN Err("DuplicateDefinition") ELSE Ok,
     table |-> [t EXCEPT ![1] = (identifier :> symbol) @@ t[1]]]

\* HashMap::insert stores the new symbol and hands back the old one, if any.
insert_definition(t, identifier, symbol) ==
    [res |-> IF identifier \in DOMAIN t[Len(t)] THEN Err("DuplicateDefinition") ELSE Ok,
     table |-> [t EXCEPT ![Len(t)] = (identifier :> symbol) @@ t[Len(t)]]]

enter_scope(t) == Append(t, EmptyFrame)

\* exit_scope that forgets the pop
exit_scope_kept(t) == t

\* Vec::pop on an empty vector does nothing.
exit_scope(t) == IF Len(t) = 0 THEN t ELSE SubSeq(t, 1, Len(t) - 1)

Intrinsics == {"getint", "getch", "getarray", "putint", "putch", "putarray", "starttime", "stoptime"}

\* Checker::new keeping the intrinsics in a frame of their own, below the global frame
CheckerNewOwnFrame == <<[n \in Intrinsics |-> Function(Int, <<>>)], EmptyFrame>>

\* Checker::new building its table with Scope::new alone
CheckerNewUnseeded == new

CheckerNew ==
    << ("getint" :> Function(Int, <<>>))
    @@ ("getch" :> Function(Int, <<>>))
    @@ ("getarray" :> Function(Int, <<Pointer(<<>>)>>))
    @@ ("putint" :> Function(Void, <<Int>>))
    @@ ("putch" :> Function(Void, <<Int>>))
    @@ ("putarray" :> Function(Int, <<Int, Pointer(<<>>)>>))
    @@ ("starttime" :> Function(Void, <<>>))
    @@ ("stoptime" :> Function(Void, <<>>)) >>

(***************************************************************************)
(* Expressions (ast::Expr) and the two contracts the checker delegates to. *)
(***************************************************************************)
Num(i) == [k |-> "Num", v |-> i, n |-> "", args |-> <<>>]
Id(name) == [k |-> "Id", v |-> 0, n |-> name, args |-> <<>>]
Call(name, args) == [k |-> "Call", v |-> 0, n |-> name, args |-> args]
Add(l, r) == [k |-> "Add", v |-> 0, n |-> "", args |-> <<l, r>>]
NoExpr == [k |-> "None", v |-> 0, n |-> "", args |-> <<>>]

TypeOfItem(info) ==
    IF info.kind \in {"ConstVariable", "Variable"} THEN Int ELSE Pointer(info.dims)

RECURSIVE expr_type(_, _)
expr_type(e, t) ==
    IF e.k = "Num" THEN [ok |-> TRUE, err |-> "Ok", ty |-> Int]
    ELSE IF e.k = "Id" THEN
        LET s == search(t, e.n) IN
        IF ~s.found THEN [ok |-> FALSE, err |-> "UndefinedIdentifier", ty |-> Void]
        ELSE IF s.info.kind = "Function" THEN [ok |-> FALSE, err |-> "TypeMismatch", ty |-> Void]
        ELSE [ok |-> TRUE, err |-> "Ok", ty |-> TypeOfItem(s.info)]
    ELSE IF e.k = "Call" THEN
        LET s == search(t, e.n) IN
        IF ~s.found THEN [ok |-> FALSE, err |-> "UndefinedIdentifier", ty |-> Void]
        ELSE IF s.info.kind # "Function" THEN [ok |-> FALSE, err |-> "TypeMismatch", ty |-> Void]
        ELSE IF Len(e.args) # Len(s.info.params) THEN [ok |-> FALSE, err |-> "TypeMismatch", ty |-> Void]
        ELSE LET bad == {i \in 1..Len(e.args) : ~expr_type(e.args[i], t).ok}
                 off == {i \in 1..Len(e.args) : expr_type(e.args[i], t).ty # s.info.params[i]}
             IN IF bad # {} THEN [ok |-> FALSE, err |-> expr_type(e.args[CHOOSE i \in bad : \A j \in bad : i <= j], t).err, ty |-> Void]
                ELSE IF off # {} THEN [ok |-> FALSE, err |-> "TypeMismatch", ty |-> Void]
                ELSE [ok |-> TRUE, err |-> "Ok", ty |-> s.info.ret]
    ELSE \* Add
        LET l == expr_type(e.args[1], t)
            r == expr_type(e.args[2], t)
        IN IF ~l.ok THEN l
           ELSE IF ~r.ok THEN r
           ELSE IF l.ty # Int \/ r.ty # Int THEN [ok |-> FALSE, err |-> "TypeMismatch", ty |-> Void]
           ELSE [ok |-> TRUE, err |-> "Ok", ty |-> Int]

check_expr(e, t) == IF expr_type(e, t).ok THEN Ok ELSE Err(expr_type(e, t).err)

RECURSIVE const_eval(_, _)
const_eval(e, t) ==
    IF e.k = "Num" THEN [ok |-> TRUE, err |-> "Ok", v |-> e.v]
    ELSE IF e.k = "Id" THEN
        LET s == search(t, e.n) IN
        IF ~s.found THEN [ok |-> FALSE, err |-> "UndefinedIdentifier", v |-> 0]
        ELSE IF s.info.kind # "ConstVariable" THEN [ok |-> FALSE, err |-> "NotConstant", v |-> 0]
        ELSE [ok |-> TRUE, err |-> "Ok", v |-> s.info.val]
    ELSE IF e.k = "Call" THEN [ok |-> FALSE, err |-> "NotConstant", v |-> 0]
    ELSE \* Add
        LET l == const_eval(e.args[1], t)
            r == const_eval(e.args[2], t)
        IN IF ~l.ok THEN l
           ELSE IF ~r.ok THEN r
           ELSE [ok |-> TRUE, err |-> "Ok", v |-> l.v + r.v]

(***************************************************************************)
(* ast::Definition and process_definition.                                 *)
(***************************************************************************)
ConstVariableDefinition(identifier, init) == [dk |-> "ConstVariable", id |-> identifier, init |-> init]
VariableDefinition(identifier, init) == [dk |-> "Variable", id |-> identifier, init |-> init]
ConstArrayDefinition(identifier) == [dk |-> "ConstArray", id |-> identifier, init |-> NoExpr]
ArrayDefinition(identifier) == [dk |-> "Array", id |-> identifier, init |-> NoExpr]

\* process_definition binding a const scalar as a plain Variable
process_definition_mutable(t, d) ==
    IF d.dk = "ConstVariable" THEN
        LET c == const_eval(d.init, t) IN
        IF ~c.ok THEN [res |-> Err(c.err), table |-> t]
        ELSE insert_definition(t, d.id, Variable)
    ELSE IF d.dk = "Variable" THEN
        LET ty == expr_type(d.init, t) IN
        IF d.init # NoExpr /\ ~ty.ok THEN [res |-> Err(ty.err), table |-> t]
        ELSE IF d.init # NoExpr /\ ty.ty # Int THEN [res |-> Err("TypeMismatch"), table |-> t]
        ELSE insert_definition(t, d.id, Variable)
    ELSE [res |-> Err("Panic"), table |-> t]

\* process_definition binding a variable before its initializer is looked at
process_definition_bound_first(t, d) ==
    IF d.dk = "ConstVariable" THEN
        LET c == const_eval(d.init, t) IN
        IF ~c.ok THEN [res |-> Err(c.err), table |-> t]
        ELSE insert_definition(t, d.id, ConstVariable(c.v))
    ELSE IF d.dk = "Variable" THEN
        LET r == insert_definition(t, d.id, Variable)
            ty == expr_type(d.init, r.table)
        IN IF ~r.res.ok THEN r
           ELSE IF d.init # NoExpr /\ ~ty.ok THEN [res |-> Err(ty.err), table |-> r.table]
           ELSE IF d.init # NoExpr /\ ty.ty # Int THEN [res |-> Err("TypeMismatch"), table |-> r.table]
           ELSE r
    ELSE [res |-> Err("Panic"), table |-> t]

\* process_definition with the type of the initializer of a variable not looked at
process_definition_untyped(t, d) ==
    IF d.dk = "ConstVariable" THEN
        LET c == const_eval(d.init, t) IN
        IF ~c.ok THEN [res |-> Err(c.err), table |-> t]
        ELSE insert_definition(t, d.id, ConstVariable(c.v))
    ELSE IF d.dk = "Variable" THEN
        LET ty == expr_type(d.init, t) IN
        IF d.init # NoExpr /\ ~ty.ok THEN [res |-> Err(ty.err), table |-> t]
        ELSE insert_definition(t, d.id, Variable)
    ELSE [res |-> Err("Panic"), table |-> t]

process_definition(t, d) ==
    IF d.dk = "ConstVariable" THEN
        LET c == const_eval(d.init, t) IN
        IF ~c.ok THEN [res |-> Err(c.err), table |-> t]
        ELSE insert_definition(t, d.id, ConstVariable(c.v))
    ELSE IF d.dk = "Variable" THEN
        LET ty == expr_type(d.init, t) IN
        IF d.init # NoExpr /\ ~ty.ok THEN [res |-> Err(ty.err), table |-> t]
        ELSE IF d.init # NoExpr /\ ty.ty # Int THEN [res |-> Err("TypeMismatch"), table |-> t]
        ELSE insert_definition(t, d.id, Variable)
    ELSE [res |-> Err("Panic"), table |-> t]   \* todo!()

(***************************************************************************)
(* GlobalItem::FunctionDefinition: the part of check before the body.      *)
(***************************************************************************)
ParameterInt(identifier) == [pk |-> "Int", id |-> identifier, lens |-> <<>>]
ParameterPointer(identifier, lens) == [pk |-> "Pointer", id |-> identifier, lens |-> lens]
FunctionDefinition(return_void, identifier, parameter_list) ==
    [return_void |-> return_void, id |-> identifier, ps |-> parameter_list]
NoFunction == FunctionDefinition(FALSE, "", <<>>)

\* lines 164-170: every length of every pointer parameter, in order
AllLengths(ps) ==
    LET RECURSIVE flat(_)
        flat(i) == IF i > Len(ps) THEN <<>> ELSE ps[i].lens \o flat(i + 1)
    IN flat(1)

FirstFailure(es, t) ==
    LET bad == {i \in 1..Len(es) : ~const_eval(es[i], t).ok} IN
    IF bad = {} THEN Ok
    ELSE Err(const_eval(es[CHOOSE i \in bad : \A j \in bad : i <= j], t).err)

Lengths(p, t) == [i \in 1..Len(p.lens) |-> const_eval(p.lens[i], t).v]

parameter_type(ps, t) ==
    [i \in 1..Len(ps) |-> IF ps[i].pk = "Int" THEN Int ELSE Pointer(Lengths(ps[i], t))]

return_type(return_void) == IF return_void THEN Void ELSE Int

RECURSIVE InsertParameters(_, _, _, _)
InsertParameters(t, ps, i, t0) ==
    IF i > Len(ps) THEN [res |-> Ok, table |-> t]
    ELSE LET sym == IF ps[i].pk = "Int" THEN Variable ELSE PointerItem(Lengths(ps[i], t0))
             r == insert_definition(t, ps[i].id, sym)
         IN IF ~r.res.ok THEN r ELSE InsertParameters(r.table, ps, i + 1, t0)

\* the header without the registration of the function name
FunctionHeaderUnregistered(t, f) ==
    LET c == FirstFailure(AllLengths(f.ps), t) IN
    IF ~c.ok THEN [res |-> c, table |-> t]
    ELSE InsertParameters(enter_scope(t), f.ps, 1, t)

\* lines 164-200; the table is returned as the code leaves it, also on error
FunctionHeader(t, f) ==
    LET c == FirstFailure(AllLengths(f.ps), t) IN
    IF ~c.ok THEN [res |-> c, table |-> t]
    ELSE LET r == insert_definition(t, f.id, Function(return_type(f.return_void), parameter_type(f.ps, t))) IN
         IF ~r.res.ok THEN r
         ELSE InsertParameters(enter_scope(r.table), f.ps, 1, t)

(***************************************************************************)
(* process_block: the context handed to each child block, and the          *)
(* statements that depend on the context.                                  *)
(***************************************************************************)
Context(return_void, in_while) == [return_void |-> return_void, in_while |-> in_while]

BodyContext(return_void) == Context(return_void, FALSE)                    \* line 201
NestedContext(return_void, in_while) == Context(return_void, in_while)     \* line 114
IfContextLoop(return_void, in_while) == Context(return_void, TRUE)         \* an if branch taken for a loop body
IfContext(return_void, in_while) == Context(return_void, in_while)         \* lines 124-125
WhileContext(return_void, in_while) == Context(return_void, in_while)      \* line 130

\* the condition with the Void arm of the match left out
ConditionUnchecked(e, t) ==
    LET ty == expr_type(e, t) IN
    IF ~ty.ok THEN Err(ty.err) ELSE Ok

Condition(e, t) ==
    LET ty == expr_type(e, t) IN
    IF ~ty.ok THEN Err(ty.err)
    ELSE IF ty.ty = Void THEN Err("IllegalCondition")
    ELSE Ok

\* the return rule with the void case forgotten
StatementReturnLax(e, return_void, t) ==
    IF e = NoExpr /\ return_void THEN Ok
    ELSE IF e = NoExpr THEN Err("MissingReturnValue")
    ELSE LET ty == expr_type(e, t) IN
         IF ~ty.ok THEN Err(ty.err)
         ELSE IF ty.ty # Int THEN Err("TypeMismatch")
         ELSE Ok

StatementReturn(e, return_void, t) ==
    IF e = NoExpr /\ return_void THEN Ok
    ELSE IF e = NoExpr THEN Err("MissingReturnValue")
    ELSE IF return_void THEN Err("UnexpectedReturnValue")
    ELSE LET ty == expr_type(e, t) IN
         IF ~ty.ok THEN Err(ty.err)
         ELSE IF ty.ty # Int THEN Err("TypeMismatch")
         ELSE Ok

StatementJump(in_while) == IF ~in_while THEN Err("IllegalJump") ELSE Ok

(***************************************************************************)
(* The tree, read item by item.  An item of a block that opens child       *)
(* blocks (Block, If, While) is followed by the items of the child and an  *)
(* End; an If has two children, then and else, each closed by an End.      *)
(***************************************************************************)
NoDefinition == VariableDefinition("", NoExpr)

Item(t, d, e, f) == [t |-> t, d |-> d, e |-> e, f |-> f]
NoItem == Item("None", NoDefinition, NoExpr, NoFunction)
EndOfUnit == Item("EndOfUnit", NoDefinition, NoExpr, NoFunction)
End == Item("End", NoDefinition, NoExpr, NoFunction)
BlockItemBlock == Item("Block", NoDefinition, NoExpr, NoFunction)
Break == Item("Break", NoDefinition, NoExpr, NoFunction)
Continue == Item("Continue", NoDefinition, NoExpr, NoFunction)

Names == {"x", "f", "getint"}
Sum == Add(Num(3), Num(4))
PutInt == Call("putint", <<Num(3)>>)

Definitions ==
    { ConstVariableDefinition("x", Sum), ConstVariableDefinition("x", Call("getint", <<>>)),
      ConstVariableDefinition("x", Id("x")),
      VariableDefinition("x", NoExpr), VariableDefinition("x", PutInt),
      VariableDefinition("x", Id("x")), VariableDefinition("getint", NoExpr),
      ConstArrayDefinition("x"), ArrayDefinition("x") }

ParameterLists ==
    { <<>>, <<ParameterInt("x")>>, <<ParameterInt("x"), ParameterInt("x")>>,
      <<ParameterInt("getint")>>,
      <<ParameterPointer("x", <<Sum>>)>>, <<ParameterPointer("x", <<Call("getint", <<>>)>>)>> }

Signatures ==
    {<<"f", ps>> : ps \in ParameterLists} \cup {<<"x", <<>> >>, <<"getint", <<>> >>}

DefinitionItems == {Item("Definition", d, NoExpr, NoFunction) : d \in Definitions}
FunctionItems ==
    {Item("FunctionDefinition", NoDefinition, NoExpr, FunctionDefinition(rv, s[1], s[2])) :
        rv \in BOOLEAN, s \in Signatures}
ExprItems == {Item("Expr", NoDefinition, e, NoFunction) : e \in {Call("f", <<>>), Id("x")}}
Conditions == {Num(3), PutInt, Id("x")}
IfItems == {Item("If", NoDefinition, e, NoFunction) : e \in Conditions}
WhileItems == {Item("While", NoDefinition, e, NoFunction) : e \in Conditions}
ReturnItems == {Item("Return", NoDefinition, e, NoFunction) : e \in {NoExpr, Sum, Id("x")}}

(***************************************************************************)
(* State.                                                                   *)
(*   table   Checker::table                                                 *)
(*   stack   the calls of process_block in progress, outermost first, each  *)
(*           with the table it was entered with                             *)
(*   result  "Running", or what check returned                              *)
(*   fn      the function definition whose body is being walked             *)
(*   cur     the item read last                                             *)
(*   ret     the calls of process_block that returned in the last step,     *)
(*           innermost first                                                *)
(*   tape, pos   the items of the tree read so far and the position in it   *)
(*   calls, first, fresh   number of calls of check, the result of the      *)
(*           first, and whether the Checker was new when this call began    *)
(***************************************************************************)
Call_(kind, c, t) ==
    [kind |-> kind, return_void |-> c.return_void, in_while |-> c.in_while, entry |-> Len(t), at |-> t]

Top == stack[Len(stack)]
Popped == SubSeq(stack, 1, Len(stack) - 1)

Init ==
    /\ table = CheckerNew
    /\ stack = <<>>
    /\ result = "Running"
    /\ fn = NoFunction
    /\ cur = NoItem
    /\ ret = <<>>
    /\ tape = <<>>
    /\ pos = 1
    /\ calls = 1
    /\ first = "Running"
    /\ fresh = TRUE

Offered(S) ==
    IF pos <= Len(tape) THEN {tape[pos]} \cap S
    ELSE IF Len(tape) >= MaxTape THEN {}
    ELSE S

Read(item) ==
    /\ cur' = item
    /\ pos' = pos + 1
    /\ tape' = IF pos > Len(tape) THEN Append(tape, item) ELSE tape
    /\ UNCHANGED <<calls, fresh>>

Returned(c, t, ok) ==
    [kind |-> c.kind, in_while |-> c.in_while, entry |-> c.entry, exit |-> Len(t), ok |-> ok,
     before |-> c.at, after |-> t]

Finish(e) ==
    /\ result' = e
    /\ first' = IF calls = 1 THEN e ELSE first

\* an Err leaves every call of process_block in progress at once (the ? operator)
Fail(e, t) ==
    /\ table' = t
    /\ stack' = <<>>
    /\ ret' = [i \in 1..Len(stack) |-> Returned(stack[Len(stack) + 1 - i], t, FALSE)]
    /\ Finish(e)

Proceed(t, s) ==
    /\ table' = t
    /\ stack' = s
    /\ ret' = <<>>
    /\ UNCHANGED <<result, first>>

\* an Err that is dropped instead of returned
PropagateIgnored(r, s) == Proceed(r.table, s)

Propagate(r, s) == IF r.res.ok THEN Proceed(r.table, s) ELSE Fail(r.res.err, r.table)

Same(res, t) == [res |-> res, table |-> t]
Entering(res, t) == [res |-> res, table |-> IF res.ok THEN enter_scope(t) ELSE t]

(***************************************************************************)
(* check: the loop over the global items (lines 154-207).                  *)
(***************************************************************************)
AtGlobal == result = "Running" /\ stack = <<>>

GlobalDefinition ==
    /\ AtGlobal
    /\ \E item \in Offered(DefinitionItems) :
        /\ Read(item)
        /\ Propagate(process_definition(table, item.d), stack)
    /\ UNCHANGED fn

GlobalFunctionDefinition ==
    /\ AtGlobal
    /\ \E item \in Offered(FunctionItems) :
        LET h == FunctionHeader(table, item.f) IN
        /\ Read(item)
        /\ fn' = item.f
        /\ Propagate(Entering(h.res, h.table),
                     <<Call_("body", BodyContext(item.f.return_void), h.table)>>)

CheckOk ==
    /\ AtGlobal
    /\ \E item \in Offered({EndOfUnit}) : Read(item)
    /\ Finish("Ok")
    /\ ret' = <<>>
    /\ UNCHANGED <<table, stack, fn>>

(***************************************************************************)
(* process_block: one item of the block being walked (lines 109-152).      *)
(***************************************************************************)
InBlock == result = "Running" /\ stack # <<>>

BlockDefinition ==
    /\ InBlock
    /\ \E item \in Offered(DefinitionItems) :
        /\ Read(item)
        /\ Propagate(process_definition(table, item.d), stack)
    /\ UNCHANGED fn

BlockNested ==
    /\ InBlock
    /\ \E item \in Offered({BlockItemBlock}) :
        /\ Read(item)
        /\ Propagate(Entering(Ok, table),
                     Append(stack, Call_("block", NestedContext(Top.return_void, Top.in_while), table)))
    /\ UNCHANGED fn

StatementExpr ==
    /\ InBlock
    /\ \E item \in Offered(ExprItems) :
        /\ Read(item)
        /\ Propagate(Same(check_expr(item.e, table), table), stack)
    /\ UNCHANGED fn

StatementIf ==
    /\ InBlock
    /\ \E item \in Offered(IfItems) :
        /\ Read(item)
        /\ Propagate(Entering(Condition(item.e, table), table),
                     Append(stack, Call_("then", IfContext(Top.return_void, Top.in_while), table)))
    /\ UNCHANGED fn

StatementWhile ==
    /\ InBlock
    /\ \E item \in Offered(WhileItems) :
        /\ Read(item)
        /\ Propagate(Entering(Condition(item.e, table), table),
                     Append(stack, Call_("while", WhileContext(Top.return_void, Top.in_while), table)))
    /\ UNCHANGED fn

StatementReturnStep ==
    /\ InBlock
    /\ \E item \in Offered(ReturnItems) :
        /\ Read(item)
        /\ Propagate(Same(StatementReturn(item.e, Top.return_void, table), table), stack)
    /\ UNCHANGED fn

StatementBreakContinue ==
    /\ InBlock
    /\ \E item \in Offered({Break, Continue}) :
        /\ Read(item)
        /\ Propagate(Same(StatementJump(Top.in_while), table), stack)
    /\ UNCHANGED fn

\* lines 150-151, for a nested block, a while body or an else block
BlockEnd ==
    /\ InBlock /\ Top.kind \in {"block", "while", "else"}
    /\ \E item \in Offered({End}) : Read(item)
    /\ table' = exit_scope(table)
    /\ stack' = Popped
    /\ ret' = <<Returned(Top, exit_scope(table), TRUE)>>
    /\ UNCHANGED <<fn, result, first>>

\* lines 124-125: the then block returns Ok and the else block is entered
ThenEnd ==
    /\ InBlock /\ Top.kind = "then"
    /\ \E item \in Offered({End}) : Read(item)
    /\ table' = enter_scope(exit_scope(table))
    /\ stack' = Append(Popped, Call_("else", IfContext(stack[Len(stack) - 1].return_void, stack[Len(stack) - 1].in_while),
                                     exit_scope(table)))
    /\ ret' = <<Returned(Top, exit_scope(table), TRUE)>>
    /\ UNCHANGED <<fn, result, first>>

\* lines 150-151 and 202: the body returns Ok and the parameter scope is left
BodyEnd ==
    /\ InBlock /\ Top.kind = "body"
    /\ \E item \in Offered({End}) : Read(item)
    /\ table' = exit_scope(exit_scope(table))
    /\ stack' = Popped
    /\ ret' = <<Returned(Top, exit_scope(table), TRUE)>>
    /\ UNCHANGED <<fn, result, first>>

(***************************************************************************)
(* A second call of check on the same tree: on the same Checker            *)
(* (self.table is what the first call left) or on a new one.               *)
(***************************************************************************)
Restart ==
    /\ result # "Running" /\ calls = 1
    /\ calls' = calls + 1
    /\ result' = "Running"
    /\ pos' = 1
    /\ fn' = NoFunction
    /\ cur' = NoItem
    /\ ret' = <<>>
    /\ UNCHANGED <<stack, tape, first>>

CheckAgain ==
    /\ result # "Panic"
    /\ Restart
    /\ fresh' = FALSE
    /\ UNCHANGED table

CheckFresh ==
    /\ Restart
    /\ fresh' = TRUE
    /\ table' = CheckerNew

Next ==
    \/ GlobalDefinition
    \/ GlobalFunctionDefinition
    \/ CheckOk
    \/ BlockDefinition
    \/ BlockNested
    \/ StatementExpr
    \/ StatementIf
    \/ StatementWhile
    \/ StatementReturnStep
    \/ StatementBreakContinue
    \/ BlockEnd
    \/ ThenEnd
    \/ BodyEnd
    \/ CheckAgain
    \/ CheckFresh

Spec == Init /\ [][Next]_vars

(***************************************************************************)
(* Properties.                                                             *)
(*                                                                         *)
(* A step that reads an item leaves calls unchanged; in such a step the    *)
(* unprimed variables are the state in which the item is processed and     *)
(* cur' is the item.                                                       *)
(***************************************************************************)
Reads == calls' = calls
TopFrame(t) == t[Len(t)]
Jumps == {Break, Continue}

\* the initializer of a scalar definition is accepted, so that insert_definition is called
InitAccepted(d, t) ==
    IF d.dk = "ConstVariable" THEN const_eval(d.init, t).ok
    ELSE IF d.dk = "Variable" THEN d.init = NoExpr \/ (expr_type(d.init, t).ok /\ expr_type(d.init, t).ty = Int)
    ELSE FALSE

LengthsAccepted(f, t) == FirstFailure(AllLengths(f.ps), t).ok
RepeatedParameter(f) == \E i, j \in 1..Len(f.ps) : i < j /\ f.ps[i].id = f.ps[j].id

\* C1: a definition, a function or a parameter whose name is already bound in
\* the top frame makes insert_definition return an error, and check fails with
\* DuplicateDefinition, whatever the old and the new symbol are.
C1_DuplicateRejected ==
    [][Reads =>
        /\ (cur'.t = "Definition" /\ InitAccepted(cur'.d, table) /\ cur'.d.id \in DOMAIN TopFrame(table)
                => result' = "DuplicateDefinition")
        /\ (cur'.t = "FunctionDefinition" /\ LengthsAccepted(cur'.f, table)
                /\ (cur'.f.id \in DOMAIN TopFrame(table) \/ RepeatedParameter(cur'.f))
                => result' = "DuplicateDefinition")]_vars

C1_Witness ==
    /\ result = "DuplicateDefinition"
    /\ cur.t = "Definition" /\ cur.d.dk = "Variable"
    /\ Len(ret) >= 1
    /\ tape[pos - 2].t = "Definition" /\ tape[pos - 2].d.dk = "ConstVariable"

\* C2: a name bound only in outer frames may be declared again: the
\* declaration succeeds and binds the name in the top frame, the outer frames
\* stay as they were.  A parameter x and a variable x of the body, or the name
\* of an intrinsic in an inner frame, are accepted.
C2_ShadowingAccepted ==
    [][Reads =>
        /\ (cur'.t = "Definition" /\ InitAccepted(cur'.d, table)
                /\ cur'.d.id \notin DOMAIN TopFrame(table) /\ search(table, cur'.d.id).found
                => /\ result' = "Running"
                   /\ Len(table') = Len(table)
                   /\ cur'.d.id \in DOMAIN TopFrame(table')
                   /\ \A i \in 1..(Len(table) - 1) : table'[i] = table[i])
        /\ (cur'.t = "FunctionDefinition" /\ LengthsAccepted(cur'.f, table)
                /\ cur'.f.id \notin DOMAIN TopFrame(table) /\ ~RepeatedParameter(cur'.f)
                => /\ result' = "Running"
                   /\ \A i \in 1..Len(cur'.f.ps) : cur'.f.ps[i].id \in DOMAIN table'[Len(table) + 1])]_vars

C2_Witness ==
    /\ result = "Running" /\ Len(stack) = 1 /\ fresh /\ calls = 1
    /\ cur.t = "Definition" /\ cur.d.id = "x"
    /\ "x" \in DOMAIN table[2] /\ "x" \in DOMAIN table[3]

\* C3: a break or continue inside the body of a while succeeds, whatever the
\* loop context of the while statement itself.
C3_JumpInWhileAccepted ==
    [][Reads /\ cur' \in Jumps /\ (\E i \in 1..Len(stack) : stack[i].kind = "while")
        => result' = "Running"]_vars

\* C4: a break or continue that no while body encloses fails with IllegalJump,
\* at any depth of blocks and ifs: outside every while body in_while is false.
NoWhile(s) == \A i \in 1..Len(s) : s[i].kind # "while"

C4_JumpOutsideLoopRejected ==
    [][Reads =>
        /\ (NoWhile(stack) => \A i \in 1..Len(stack) : ~stack[i].in_while)
        /\ (cur' \in Jumps /\ NoWhile(stack) => result' = "IllegalJump")]_vars

C4_Witness ==
    /\ result = "IllegalJump" /\ cur \in Jumps
    /\ Len(ret) = 3 /\ ret[1].kind = "block" /\ ret[2].kind = "then" /\ ret[3].kind = "body"

\* C5: the outcome of a return statement, at any depth inside a function,
\* depends only on whether it has an expression and on whether the enclosing
\* function returns void.
ReturnRule(e, return_void, t) ==
    IF e = NoExpr THEN (IF return_void THEN "Running" ELSE "MissingReturnValue")
    ELSE IF return_void THEN "UnexpectedReturnValue"
    ELSE IF ~expr_type(e, t).ok THEN expr_type(e, t).err
    ELSE IF expr_type(e, t).ty = Int THEN "Running"
    ELSE "TypeMismatch"

C5_ReturnRule ==
    [][Reads /\ cur'.t = "Return" =>
        /\ result' = ReturnRule(cur'.e, fn.return_void, table)
        /\ \A i \in 1..Len(stack) : stack[i].return_void = fn.return_void]_vars

C5_Witness ==
    /\ cur.t = "Return" /\ cur.e # NoExpr
    /\ result = "UnexpectedReturnValue"
    /\ Len(ret) = 3

\* C6: while the body of a function is walked, the function is bound as
\* Function(returnType, parameterTypes) in the frame that was the top one when
\* its definition was met (the global frame of a new Checker), so a call of the
\* function from its own body resolves; a function defined later in the tree
\* is not bound yet.
Declares(item, n) ==
    \/ item.t = "Definition" /\ item.d.id = n
    \/ item.t = "FunctionDefinition" /\ (item.f.id = n \/ \E i \in 1..Len(item.f.ps) : item.f.ps[i].id = n)

C6_RegisteredBeforeBody ==
    stack # <<>> =>
        LET g == stack[1].entry - 1 IN
        /\ fresh => g = 1
        /\ fn.id \in DOMAIN table[g]
        /\ table[g][fn.id] = Function(return_type(fn.return_void), parameter_type(fn.ps, CheckerNew))
        /\ (\A i \in (g + 1)..Len(table) : fn.id \notin DOMAIN table[i])
                => search(table, fn.id) = [found |-> TRUE, info |-> table[g][fn.id]]
        /\ fresh => \A k \in pos..Len(tape) :
                (tape[k].t = "FunctionDefinition" /\ tape[k].f.id \notin Intrinsics
                    /\ \A j \in 1..(pos - 1) : ~Declares(tape[j], tape[k].f.id))
                => ~search(table, tape[k].f.id).found

C6_Witness ==
    /\ stack # <<>> /\ result = "Running"
    /\ cur = Item("Expr", NoDefinition, Call("f", <<>>), NoFunction)
    /\ fn.id = "f"
\* C7: the items are read in source order, one at a time, and check stops at
\* the first item that violates a rule: it returns the error of that item,
\* reads no further item and inserts nothing more into the table.
ItemResult(item, t, s) ==
    IF item.t = "Definition" THEN process_definition(t, item.d).res
    ELSE IF item.t = "FunctionDefinition" THEN FunctionHeader(t, item.f).res
    ELSE IF item.t = "Expr" THEN check_expr(item.e, t)
    ELSE IF item.t \in {"If", "While"} THEN Condition(item.e, t)
    ELSE IF item.t = "Return" THEN StatementReturn(item.e, s[Len(s)].return_void, t)
    ELSE IF item \in Jumps THEN StatementJump(s[Len(s)].in_while)
    ELSE Ok

C7_FailFast ==
    [][/\ Reads =>
            /\ result = "Running"
            /\ pos' = pos + 1 /\ tape'[pos] = cur' /\ SubSeq(tape', 1, Len(tape)) = tape
            /\ ~ItemResult(cur', table, stack).ok =>
                    /\ result' = ItemResult(cur', table, stack).err
                    /\ stack' = <<>>
            /\ ItemResult(cur', table, stack).ok =>
                    result' = IF cur' = EndOfUnit THEN "Ok" ELSE "Running"
       /\ result # "Running" => ~Reads /\ pos' = 1 /\ table' \in {table, CheckerNew}]_vars

C7_Witness ==
    /\ calls = 2 /\ ~fresh
    /\ result = "DuplicateDefinition"
    /\ pos <= Len(tape)

\* C8: a second call of check on the same tree returns what the first call
\* returned, on a new Checker and on the Checker of the first call alike.
C8_SameOutcome == (calls = 2 /\ result # "Running") => result = first

\* C9: a call of process_block that returns, with Ok or with an error, leaves
\* the table with as many frames as it found.
C9_FramesRestored == \A i \in 1..Len(ret) : ret[i].exit = ret[i].entry

\* C10: a const scalar definition succeeds exactly when its initializer
\* constant-evaluates against the table and its name is not bound in the top
\* frame; the name is then bound in the top frame to a ConstVariable carrying
\* the value (3 + 4 gives 7).  An initializer that does not constant-evaluate
\* fails with the error of the evaluation, NotConstant for a call.
C10_ConstDefinition ==
    [][Reads /\ cur'.t = "Definition" /\ cur'.d.dk = "ConstVariable" =>
        LET c == const_eval(cur'.d.init, table)
            id == cur'.d.id
        IN /\ (result' = "Running") = (c.ok /\ id \notin DOMAIN TopFrame(table))
           /\ result' = "Running" =>
                table' = [table EXCEPT ![Len(table)] = (id :> ConstVariable(c.v)) @@ TopFrame(table)]
           /\ (cur'.d.init = Sum /\ result' = "Running") => search(table', id).info.val = 7
           /\ ~c.ok => result' = c.err /\ table' = table
           /\ cur'.d.init.k = "Call" => result' = "NotConstant"]_vars

C10_Witness ==
    /\ result = "Running"
    /\ cur = Item("Definition", ConstVariableDefinition("x", Id("x")), NoExpr, NoFunction)
    /\ TopFrame(table)["x"] = ConstVariable(7)
    /\ Len(table) > 1

\* C11: a variable definition whose initializer has a type other than Int
\* (Void, Pointer) fails with TypeMismatch and binds nothing; with no
\* initializer or an Int one, and a name free in the top frame, it binds the
\* name in the top frame as Variable, which carries no value, so the name does
\* not constant-evaluate afterwards.
C11_VariableDefinition ==
    [][Reads /\ cur'.t = "Definition" /\ cur'.d.dk = "Variable" =>
        LET ty == expr_type(cur'.d.init, table)
            id == cur'.d.id
            typed == cur'.d.init = NoExpr \/ (ty.ok /\ ty.ty = Int)
        IN /\ (cur'.d.init # NoExpr /\ ty.ok /\ ty.ty # Int) => result' = "TypeMismatch" /\ table' = table
           /\ (cur'.d.init # NoExpr /\ ~ty.ok) => result' = ty.err /\ table' = table
           /\ (result' = "Running") = (typed /\ id \notin DOMAIN TopFrame(table))
           /\ result' = "Running" =>
                /\ table' = [table EXCEPT ![Len(table)] = (id :> Variable) @@ TopFrame(table)]
                /\ search(table', id) = [found |-> TRUE, info |-> Variable]
                /\ const_eval(Id(id), table') = [ok |-> FALSE, err |-> "NotConstant", v |-> 0]]_vars

C11_Witness ==
    /\ result = "TypeMismatch"
    /\ cur = Item("Definition", VariableDefinition("x", Id("x")), NoExpr, NoFunction)
    /\ search(table, "x").found /\ search(table, "x").info.kind = "Pointer"

\* C12: processing an array definition (const or not) ends with a Result: Ok
\* with the name bound in the top frame, or an error; the checker is never
\* aborted.
C12_ArrayDefinitionResult ==
    [][Reads /\ cur'.t = "Definition" /\ cur'.d.dk \in {"Array", "ConstArray"} =>
        /\ result' # "Panic"
        /\ result' = "Running" => cur'.d.id \in DOMAIN TopFrame(table')]_vars

\* C13: when check starts on a new Checker the table has exactly one frame,
\* which binds exactly the eight intrinsics, each to its Function record:
\* getint() -> int, getch() -> int, getarray(int*) -> int, putint(int) -> void,
\* putch(int) -> void, putarray(int, int*) -> int, starttime() -> void,
\* stoptime() -> void.  search of an intrinsic returns that record, search of
\* any other name returns nothing.
Signature(n) ==
    IF n \in {"getint", "getch"} THEN <<Int, <<>> >>
    ELSE IF n = "getarray" THEN <<Int, <<Pointer(<<>>)>> >>
    ELSE IF n \in {"putint", "putch"} THEN <<Void, <<Int>> >>
    ELSE IF n = "putarray" THEN <<Int, <<Int, Pointer(<<>>)>> >>
    ELSE <<Void, <<>> >>

Eight == {"getint", "getch", "getarray", "putint", "putch", "putarray", "starttime", "stoptime"}
OtherNames == {"x", "f", "main", ""}
Started == result = "Running" /\ pos = 1 /\ fresh

Binding(t, n) == {i \in 1..Len(t) : n \in DOMAIN t[i]}
Innermost(t, n) == CHOOSE i \in Binding(t, n) : \A j \in Binding(t, n) : j <= i

C14_SearchInnermost ==
    \A n \in Names \cup {"putint", "main"} :
        /\ search(table, n).found = (Binding(table, n) # {})
        /\ Binding(table, n) # {} => search(table, n).info = table[Innermost(table, n)][n]

C14_Witness ==
    /\ Binding(table, "x") = {2, 3}
    /\ table[2]["x"] = PointerItem(<<7>>)
    /\ table[3]["x"] = Variable
    /\ search(table, "x").info = Variable

\* C15: on a Checker none of whose checks has failed, the table has one frame
\* (the global one) plus one per scope entered and not yet exited: the
\* parameter scope of the function being checked and one per call of
\* process_block in progress.  It has exactly one frame between global items
\* and when check returns Ok, and in every state at least one.
OpenScopes == IF stack = <<>> THEN 0 ELSE 1 + Len(stack)
NotFailed == result \in {"Running", "Ok"} /\ (fresh \/ first = "Ok")

C15_StackDiscipline ==
    /\ Len(table) >= 1
    /\ NotFailed =>
        /\ Len(table) = 1 + OpenScopes
        /\ AtGlobal => Len(table) = 1
        /\ result = "Ok" => Len(table) = 1 /\ stack = <<>>

C15_Witness ==
    /\ NotFailed /\ result = "Running"
    /\ Len(stack) = 3 /\ Top.kind = "then"
    /\ Len(table) = 5

\* C16: when process_block returns Ok the table is the table the block was
\* entered with: the bindings made inside are gone, no frame below has changed,
\* and every name resolves as it did at the entry (a shadowed outer binding is
\* found again, a name declared only inside is undefined again).  When the body
\* of a function has returned and the parameter scope is left, the table is
\* the one before the function definition plus the binding of the function: a
\* parameter or a local name is undefined for the items that follow.
AfterOnlyFunction ==
    /\ fresh /\ calls = 1 /\ AtGlobal /\ cur = End
    /\ tape[1].t = "FunctionDefinition"
    /\ \A j \in 2..(pos - 1) : tape[j].t # "FunctionDefinition"

C16_BlockRestoresTable ==
    [][/\ \A i \in 1..Len(ret') : ret'[i].ok => ret'[i].after = ret'[i].before
       /\ (Reads /\ cur' = End) =>
            /\ Len(ret') = 1 /\ ret'[1].ok /\ ret'[1].before = Top.at
            /\ Len(ret'[1].after) = Len(table) - 1
            /\ \A n \in Names : search(ret'[1].after, n) = search(Top.at, n)
            /\ Top.kind = "body" => table' = exit_scope(Top.at)
       /\ (Reads /\ cur'.t = "FunctionDefinition" /\ result' = "Running") =>
            exit_scope(stack'[1].at) =
                [table EXCEPT ![Len(table)] =
                    (cur'.f.id :> Function(return_type(cur'.f.return_void), parameter_type(cur'.f.ps, table)))
                        @@ TopFrame(table)]
       /\ AfterOnlyFunction' =>
            /\ DOMAIN table'[1] = Intrinsics \cup {tape'[1].f.id}
            /\ Len(table') = 1
            /\ search(table', "x").found = (tape'[1].f.id = "x")]_vars

C16_Witness ==
    /\ cur = End /\ Len(ret) = 1 /\ ret[1].ok /\ ret[1].kind = "body"
    /\ tape[pos - 2] = Item("Definition", VariableDefinition("x", NoExpr), NoExpr, NoFunction)
    /\ search(ret[1].after, "x").info = PointerItem(<<7>>)
    /\ ~search(table, "x").found

\* C17: an if or a while whose condition has type Void fails with
\* IllegalCondition and none of its blocks is entered (no frame is pushed, no
\* call of process_block is made).  With a condition of another type (Int,
\* Pointer) the then block of an if is entered in a new empty frame with the
\* context of the enclosing block; when it has returned, the else block is
\* entered the same way: its frame is empty and the table below it is the one
\* the then block was entered with, so no name of the then block is visible,
\* and a definition in the else block of a name not yet declared in the else
\* block itself succeeds.
SameContext(c, d) == c.return_void = d.return_void /\ c.in_while = d.in_while

C18_IntrinsicNames ==
    [][Reads =>
        /\ (cur'.t = "Definition" /\ stack = <<>> /\ cur'.d.id \in Eight /\ InitAccepted(cur'.d, table))
                => result' = "DuplicateDefinition"
        /\ (cur'.t = "FunctionDefinition" /\ cur'.f.id \in Eight /\ LengthsAccepted(cur'.f, table))
                => result' = "DuplicateDefinition"
        /\ (cur'.t = "Definition" /\ stack # <<>> /\ cur'.d.id \in Eight /\ InitAccepted(cur'.d, table)
                /\ cur'.d.id \notin DOMAIN TopFrame(table))
                => result' = "Running" /\ TopFrame(table')[cur'.d.id] = Variable
        /\ (cur'.t = "FunctionDefinition" /\ cur'.f.id \notin DOMAIN TopFrame(table)
                /\ LengthsAccepted(cur'.f, table) /\ ~RepeatedParameter(cur'.f))
                => /\ result' = "Running"
                   /\ \A i \in 1..Len(cur'.f.ps) : cur'.f.ps[i].id \in Eight =>
                        table'[Len(table) + 1][cur'.f.ps[i].id] = Variable]_vars

C18_Witness ==
    /\ fresh /\ calls = 1
    /\ result = "DuplicateDefinition"
    /\ cur.t = "FunctionDefinition" /\ cur.f.id = "getint"
    /\ tape[1].t = "FunctionDefinition" /\ tape[1].f.ps = <<ParameterInt("getint")>>

\* C19: when a definition is rejected because its name is already bound in
\* the top frame, the table is as it was before insert_definition was called:
\* search of the name still returns the symbol that was bound first.
C19_TableUnchangedOnDuplicate ==
    [][Reads /\ cur'.t = "Definition" /\ result' = "DuplicateDefinition" =>
        /\ table' = table
        /\ search(table', cur'.d.id) = search(table, cur'.d.id)]_vars

\* C20: the initializer of a scalar definition is evaluated against the table
\* as it is before the name is bound.  In const int x = x and int x = x the x
\* of the initializer is the binding search finds before the definition: with
\* none the definition fails with UndefinedIdentifier and binds nothing; with
\* one the outcome and the value bound are those of that binding.
SelfReference(d) == d.dk \in {"ConstVariable", "Variable"} /\ d.init = Id(d.id)

C20_InitBeforeBinding ==
    [][Reads /\ cur'.t = "Definition" /\ SelfReference(cur'.d) =>
        LET id == cur'.d.id
            s == search(table, id)
            free == id \notin DOMAIN TopFrame(table)
        IN /\ ~s.found => result' = "UndefinedIdentifier" /\ table' = table
           /\ (s.found /\ cur'.d.dk = "ConstVariable") =>
                IF s.info.kind # "ConstVariable" THEN result' = "NotConstant" /\ table' = table
                ELSE /\ free => result' = "Running"
                     /\ TopFrame(table')[id] = ConstVariable(s.info.val)
           /\ (s.found /\ cur'.d.dk = "Variable") =>
                IF s.info.kind \in {"Function", "Pointer"} THEN result' = "TypeMismatch" /\ table' = table
                ELSE /\ free => result' = "Running"
                     /\ TopFrame(table')[id] = Variable
           /\ (s.found /\ free) => \A i \in 1..(Len(table) - 1) : table'[i] = table[i]]_vars

C20_Witness ==
    /\ result = "Running" /\ Len(table) = 3
    /\ cur = Item("Definition", VariableDefinition("x", Id("x")), NoExpr, NoFunction)
    /\ Binding(table, "x") = {2, 3}
    /\ table[2]["x"] = Variable /\ table[3]["x"] = Variable

====
